---- MODULE Spec2Model ----
(***************************************************************************)
(* Model of scripts/scrape.py: target resolution (load_urls_from_env,      *)
(* build_target_urls_auto), the fetcher (fetch), the card parser, the      *)
(* completion step and the assembler of main.                              *)
(*                                                                         *)
(* Text is modelled as a sequence of characters (one-character strings).   *)
(* Characters outside ASCII are written as tokens: "Mon".."Sun" stand for  *)
(* the seven weekday characters of WEEK_DAYS and "Y" for the yen sign.     *)
(***************************************************************************)
EXTENDS Integers, Sequences, FiniteSets, TLC

VARIABLES
    \* ---- target resolver driver (load_urls_from_env on bounded inputs)
    u_parts,      \* the pieces the TARGET_URLS value is built from
    u_sep,        \* the separator of the separated variant of the input
    u_raw,        \* TARGET_URLS: the pieces concatenated directly
    u_uniq,       \* load_urls_from_env() on u_raw
    u_alt_raw,    \* TARGET_URLS: the same pieces joined by u_sep
    u_alt_uniq,   \* load_urls_from_env() on u_alt_raw
    u_pc,
    \* ---- fetcher driver (one call of fetch against a scripted network)
    f,            \* the frame of the running fetch call
    \* ---- main
    env,          \* os.environ: TARGET_URLS, END_ID, MENU_IMG_FOLLOW, and
                  \* GSHEET (are the spreadsheet credentials and flags set)
    pc,           \* where main is
    urls,
    valid_urls,   \* build_target_urls_auto's list
    cid,          \* build_target_urls_auto's loop variable
    idx,          \* the page loop: source_page_url = urls[idx]
    html,         \* the document of the fetched page
    cards,
    ci,           \* the candidate loop: c = cards[ci]
    clinics_rows,
    menus_rows,
    hours_rows,
    main_exc,     \* the exception that ended main, NoFailure when none
    sinks,        \* the outputs written so far
    net_log,      \* history: the fetch and check_url_exists calls made
    pages_seen,   \* history: the pages fetched and their number of cards
    detail        \* history: how the last completion got its detail document,
                  \* and the document

uvars == <<u_parts, u_sep, u_raw, u_uniq, u_alt_raw, u_alt_uniq, u_pc>>

mvars == <<env, pc, urls, valid_urls, cid, idx, html, cards, ci, clinics_rows,
           menus_rows, hours_rows, main_exc, sinks, net_log, pages_seen, detail>>

vars == <<uvars, f, mvars>>

----------------------------------------------------------------------------
(* Bounds of the model *)

MaxPieces == 3
MaxEndId == 1

----------------------------------------------------------------------------
(* Text helpers *)

HTTP  == <<"h","t","t","p",":","/","/">>
HTTPS == <<"h","t","t","p","s",":","/","/">>

\* the characters Python's \s matches
Whitespace == {" ", "\n", "\t", "\r"}

RECURSIVE Concat(_)
Concat(ss) == IF ss = <<>> THEN <<>> ELSE Head(ss) \o Concat(Tail(ss))

RECURSIVE JoinWith(_, _)
JoinWith(ss, sep) ==
    IF ss = <<>> THEN <<>>
    ELSE IF Len(ss) = 1 THEN ss[1]
    ELSE ss[1] \o sep \o JoinWith(Tail(ss), sep)

Range(s) == {s[i] : i \in 1..Len(s)}

\* s[p..] starts with pat (p is 1-based)
StartsWithAt(s, p, pat) ==
    /\ p + Len(pat) - 1 <= Len(s)
    /\ \A k \in 1..Len(pat) : s[p + k - 1] = pat[k]

Min(S) == CHOOSE x \in S : \A y \in S : x <= y
Max(S) == CHOOSE x \in S : \A y \in S : x >= y

\* str.strip(): from the first to the last character that is not whitespace
Strip(s) ==
    LET kept == {p \in 1..Len(s) : s[p] \notin Whitespace}
    IN IF kept = {} THEN <<>> ELSE SubSeq(s, Min(kept), Max(kept))

\* re.sub(pattern+, " ", s) for a pattern that is a set of characters: the
\* first character of every maximal run becomes a space, the others go
SubRuns(s, chars) ==
    LET marked == [p \in 1..Len(s) |->
                      IF s[p] \notin chars THEN s[p]
                      ELSE IF p > 1 /\ s[p - 1] \in chars THEN "" ELSE " "]
    IN SelectSeq(marked, LAMBDA c : c # "")

----------------------------------------------------------------------------
(* load_urls_from_env *)

\* re.sub(r"[\s,]+", " ", s): every maximal run of whitespace and commas
\* becomes one space
SubSeparators(s) == SubRuns(s, Whitespace \cup {","})

\* length of the match of https?:// at position p, 0 when there is none
SchemeLenAt(s, p) ==
    IF StartsWithAt(s, p, HTTPS) THEN Len(HTTPS)
    ELSE IF StartsWithAt(s, p, HTTP) THEN Len(HTTP)
    ELSE 0

\* the lookahead without its https?:// alternative: (?=\s|$)
LookaheadNoScheme(s, p) ==
    \/ (p <= Len(s) /\ s[p] \in Whitespace)
    \/ p = Len(s) + 1

\* the lookahead (?=https?://|\s|$) at position p
LookaheadAt(s, p) ==
    \/ SchemeLenAt(s, p) > 0
    \/ (p <= Len(s) /\ s[p] \in Whitespace)
    \/ p = Len(s) + 1

\* the lazy .*? : the first position q >= p where the lookahead holds
LazyEnd(s, p) == Min({q \in p..(Len(s) + 1) : LookaheadAt(s, q)})

\* re.findall(r"https?://.*?(?=https?://|\s|$)", s), scanning from position p
RECURSIVE FindAllFrom(_, _)
FindAllFrom(s, p) ==
    LET starts == {q \in p..Len(s) : SchemeLenAt(s, q) > 0} IN
    IF starts = {} THEN <<>>
    ELSE LET b == Min(starts)
             e == LazyEnd(s, b + SchemeLenAt(s, b))
         IN <<SubSeq(s, b, e - 1)>> \o FindAllFrom(s, e)

FindAll(s) == FindAllFrom(s, 1)

\* a variant of the loop of lines 39-43 that keeps the last occurrence
RECURSIVE UniqLoopKeepLast(_, _)
UniqLoopKeepLast(found, uniq) ==
    IF found = <<>> THEN uniq
    ELSE LET u == Strip(Head(found)) IN
         IF u = <<>> THEN UniqLoopKeepLast(Tail(found), uniq)
         ELSE UniqLoopKeepLast(Tail(found),
                  SelectSeq(uniq, LAMBDA x : x # u) \o <<u>>)

\* the loop of lines 39-43: keep the first occurrence of every found URL
RECURSIVE UniqLoop(_, _)
UniqLoop(found, uniq) ==
    IF found = <<>> THEN uniq
    ELSE LET u == Strip(Head(found)) IN
         IF u # <<>> /\ u \notin Range(uniq)
         THEN UniqLoop(Tail(found), uniq \o <<u>>)
         ELSE UniqLoop(Tail(found), uniq)

\* lines 36-38: the URLs found in the TARGET_URLS value
found_urls(raw) == FindAll(SubSeparators(Strip(raw)))

load_urls_from_env(raw) == UniqLoop(found_urls(raw), <<>>)

----------------------------------------------------------------------------
(* Utils: clean_text, to_int, float(), number formatting *)

Digits == <<"0","1","2","3","4","5","6","7","8","9">>
IsDigit(c) == \E d \in 1..10 : Digits[d] = c
DigitValue(c) == (CHOOSE d \in 1..10 : Digits[d] = c) - 1

\* int() of a non-empty run of digits
RECURSIVE DigitsToInt(_, _)
DigitsToInt(s, acc) ==
    IF s = <<>> THEN acc ELSE DigitsToInt(Tail(s), 10 * acc + DigitValue(Head(s)))

\* str() of a non-negative int
RECURSIVE IntToDigits(_)
IntToDigits(n) ==
    IF n < 10 THEN <<Digits[n + 1]>> ELSE IntToDigits(n \div 10) \o <<Digits[(n % 10) + 1]>>

\* f"{cid:04d}"
RECURSIVE ZeroPad(_, _)
ZeroPad(s, width) == IF Len(s) >= width THEN s ELSE ZeroPad(<<"0">> \o s, width)

DigitChars == {Digits[d] : d \in 1..10}

\* the maximal run of characters of the set chars at the head of s
TakeWhile(s, chars) ==
    LET stops == {p \in 1..Len(s) : s[p] \notin chars}
    IN IF stops = {} THEN s ELSE SubSeq(s, 1, Min(stops) - 1)

Suffix(s, p) == SubSeq(s, p, Len(s))

\* re.sub(r"\s+", " ", s).strip()
clean_text(s) == Strip(SubRuns(s, Whitespace))

\* optional values: Python's None against an int or a float
NoInt == [some |-> FALSE, v |-> 0]
SomeInt(n) == [some |-> TRUE, v |-> n]

\* a float with a short decimal expansion: its integer part and the digits
\* of its fraction without trailing zeros (at least one digit, as repr shows)
NoFloat == [some |-> FALSE, whole |-> 0, frac |-> <<>>]
SomeFloat(w, fr) == [some |-> TRUE, whole |-> w, frac |-> fr]

\* to_int: None for an empty text, else the first run of digits of the text
\* without its commas
to_int(s) ==
    IF s = <<>> THEN NoInt
    ELSE LET t == SelectSeq(s, LAMBDA c : c # ",")
             starts == {p \in 1..Len(t) : IsDigit(t[p])}
         IN IF starts = {} THEN NoInt
            ELSE LET p == Min(starts)
                 IN SomeInt(DigitsToInt(TakeWhile(Suffix(t, p), DigitChars), 0))

RECURSIVE DropTrailingZeros(_)
DropTrailingZeros(s) ==
    IF Len(s) > 1 /\ s[Len(s)] = "0" THEN DropTrailingZeros(SubSeq(s, 1, Len(s) - 1)) ELSE s

\* float(text.strip()) inside try/except: the decimal forms "d+" and "d+.d*";
\* any other text raises ValueError, which leaves rating None
parse_float(text) ==
    LET t == Strip(text)
        w == TakeWhile(t, DigitChars)
        rest == Suffix(t, Len(w) + 1)
    IN IF w = <<>> THEN NoFloat
       ELSE IF rest = <<>> THEN SomeFloat(DigitsToInt(w, 0), <<"0">>)
       ELSE IF Head(rest) = "." /\ \A k \in 2..Len(rest) : IsDigit(rest[k])
            THEN SomeFloat(DigitsToInt(w, 0),
                           IF Len(rest) = 1 THEN <<"0">> ELSE DropTrailingZeros(Tail(rest)))
       ELSE NoFloat

\* str() of a float, as an f-string formats it
FloatStr(x) == IntToDigits(x.whole) \o <<".">> \o x.frac

\* str.lower() on ASCII letters
UpperCase == <<"A","B","C","D","E","F","G","H","I","J","K","L","M","N","O","P","Q","R","S","T","U","V","W","X","Y","Z">>
LowerCase == <<"a","b","c","d","e","f","g","h","i","j","k","l","m","n","o","p","q","r","s","t","u","v","w","x","y","z">>
LowerChar(c) ==
    IF \E k \in 1..26 : UpperCase[k] = c
    THEN LowerCase[CHOOSE k \in 1..26 : UpperCase[k] = c]
    ELSE c
Lower(s) == [k \in 1..Len(s) |-> LowerChar(s[k])]

----------------------------------------------------------------------------
(* URLs: urljoin, to_abs_url, get_clinic_id_from_url *)

IsAbsolute(u) == StartsWithAt(u, 1, HTTP) \/ StartsWithAt(u, 1, HTTPS)

\* the end of "scheme:" in an absolute URL
SchemeEnd(u) == CHOOSE p \in 1..Len(u) : u[p] = ":" /\ \A q \in 1..(p - 1) : u[q] # ":"

\* scheme://host of an absolute URL
Origin(u) ==
    LET start == SchemeEnd(u) + 3
        slashes == {p \in start..Len(u) : u[p] = "/"}
    IN IF slashes = {} THEN u
       ELSE SubSeq(u, 1, Min(slashes) - 1)

\* the URL up to and including the last "/" of its path
Directory(u) ==
    LET start == SchemeEnd(u) + 3
        slashes == {p \in start..Len(u) : u[p] = "/"}
    IN IF slashes = {} THEN u \o <<"/">>
       ELSE SubSeq(u, 1, Max(slashes))

\* urllib.parse.urljoin(base, href) for an absolute base and an href without
\* query, fragment or dot segments
urljoin(base, href) ==
    IF href = <<>> THEN base
    ELSE IF IsAbsolute(href) THEN href
    ELSE IF StartsWithAt(href, 1, <<"/","/">>) THEN SubSeq(base, 1, SchemeEnd(base)) \o href
    ELSE IF Head(href) = "/" THEN Origin(base) \o href
    ELSE Directory(base) \o href

to_abs_url(maybe_url, page_url) ==
    IF maybe_url = <<>> THEN <<>>
    ELSE IF IsAbsolute(maybe_url) THEN maybe_url
    ELSE IF StartsWithAt(maybe_url, 1, <<"/","/">>) THEN <<"h","t","t","p","s",":">> \o maybe_url
    ELSE urljoin(page_url, maybe_url)

ClinicsMarker == <<"/","c","l","i","n","i","c","s","/">>

\* re.search(r"/clinics/(\d+)", u): the digits after the first marker that
\* is followed by a digit
get_clinic_id_from_url(u) ==
    LET hits == {p \in 1..Len(u) :
                    /\ StartsWithAt(u, p, ClinicsMarker)
                    /\ p + Len(ClinicsMarker) <= Len(u)
                    /\ IsDigit(u[p + Len(ClinicsMarker)])}
    IN IF hits = {} THEN <<>>
       ELSE LET p == Min(hits)
            IN TakeWhile(Suffix(u, p + Len(ClinicsMarker)), DigitChars)

----------------------------------------------------------------------------
(* fetch *)

RETRY == 3
SLEEP_BETWEEN == 2

\* what one requests.get gives: a response (followed redirects included) or
\* a transport exception
Response(status, text) == [kind |-> "response", status |-> status, text |-> text]
TransportError(name)   == [kind |-> "exception", exc |-> name]

NoExc == [type |-> "None", status |-> 0]
HTTPError(status) == [type |-> "HTTPError", status |-> status]
OtherError(name)  == [type |-> name, status |-> 0]

\* r.raise_for_status(): raises HTTPError for a 4xx or 5xx status only
RaisesForStatus(status) == 400 <= status /\ status < 600

\* the exception the try block of line 50-53 raises on r, NoExc when none
AttemptException(r) ==
    IF r.kind = "exception" THEN OtherError(r.exc)
    ELSE IF RaisesForStatus(r.status) THEN HTTPError(r.status)
    ELSE NoExc

IdleFrame ==
    [pc |-> "idle", url |-> <<>>, i |-> 0, last_exc |-> NoExc,
     value |-> "", requests |-> <<>>, sleeps |-> <<>>]

\* line 48: the frame of fetch(url) on entry
FetchEnter(url) ==
    [pc |-> "loop", url |-> url, i |-> 0, last_exc |-> NoExc,
     value |-> "", requests |-> <<>>, sleeps |-> <<>>]

\* lines 49-56: one iteration of the loop, the network answering r
FetchIteration(st, r) ==
    LET e == AttemptException(r) IN
    IF e = NoExc
    THEN [st EXCEPT !.pc = "returned", !.value = r.text,
                    !.requests = Append(@, r)]
    ELSE [st EXCEPT !.last_exc = e,
                    !.sleeps = Append(@, SLEEP_BETWEEN * (st.i + 1)),
                    !.requests = Append(@, r),
                    !.i = @ + 1]

\* line 57: raise last_exc
FetchRaise(st) == [st EXCEPT !.pc = "raised"]

\* the whole call against a scripted network: script[k] answers request k
RECURSIVE FetchRun(_, _)
FetchRun(st, script) ==
    IF st.pc # "loop" THEN st
    ELSE IF st.i < RETRY THEN FetchRun(FetchIteration(st, script[st.i + 1]), script)
    ELSE FetchRaise(st)

fetch(url, script) == FetchRun(FetchEnter(url), script)

----------------------------------------------------------------------------
(* The parsed document.  A fetched text is modelled by the document          *)
(* BeautifulSoup makes of it, reduced to the elements the selectors of the   *)
(* parser look at:                                                           *)
(*   doc    = [title, h1, cards, anchors, tables, og_image, kds_img,         *)
(*             first_img]   (anchors and tables: those outside the cards)    *)
(*   card   = [a_title, rating_el, reviews_el, anchors, table]               *)
(*   anchor = [title, price, href, img]   (an a.small-list__item)            *)
(*   table  = [present, rows], a row being the texts of its td cells         *)
(*   img    = [present, src, srcset]                                         *)
(* An absent element has present = FALSE; an absent text is <<>>.            *)
(* The clinic columns rank, snippet, snippet_author, images, features and    *)
(* access, and the menu columns pickup_flag and category_raw, are copied     *)
(* from the card without a decision depending on them and are left out.      *)
(***************************************************************************)

WEEK_DAYS == <<"Mon", "Tue", "Wed", "Thu", "Fri", "Sat", "Sun">>

NoImg == [present |-> FALSE, src |-> <<>>, srcset |-> <<>>]
Img(src, srcset) == [present |-> TRUE, src |-> src, srcset |-> srcset]

NoEl == [present |-> FALSE, text |-> <<>>]
El(text) == [present |-> TRUE, text |-> text]

NoTable == [present |-> FALSE, rows |-> <<>>]
Table(rows) == [present |-> TRUE, rows |-> rows]

\* a parsed document (BeautifulSoup) in which nothing is found
BlankDoc ==
    [title |-> <<>>, h1 |-> NoEl, cards |-> <<>>, anchors |-> <<>>, tables |-> <<>>,
     og_image |-> NoEl, kds_img |-> NoImg, first_img |-> NoImg]

NoTitleLink == [present |-> FALSE, text |-> <<>>, has_href |-> FALSE, href |-> <<>>]
TitleLink(text, href) == [present |-> TRUE, text |-> text, has_href |-> TRUE, href |-> href]

HasWeekDay(text) == \E k \in 1..Len(WEEK_DAYS) : WEEK_DAYS[k] \in Range(text)

\* hours[day] = text on a dict kept as its items in insertion order
DictSet(items, key, value) ==
    IF \E k \in 1..Len(items) : items[k][1] = key
    THEN [k \in 1..Len(items) |-> IF items[k][1] = key THEN <<key, value>> ELSE items[k]]
    ELSE Append(items, <<key, value>>)

\* hours.setdefault(key, value)
DictSetDefault(items, key, value) ==
    IF \E k \in 1..Len(items) : items[k][1] = key THEN items ELSE Append(items, <<key, value>>)

RECURSIVE HoursRows(_, _)
HoursRows(rows, hours) ==
    IF rows = <<>> THEN hours
    ELSE LET tds == Head(rows) IN
         IF Len(tds) < 2 THEN HoursRows(Tail(rows), hours)
         ELSE LET day == clean_text(tds[1])
                  time_text == clean_text(tds[2])
              IN IF day # <<>> /\ HasWeekDay(day)
                 THEN HoursRows(Tail(rows), DictSet(hours, day, time_text))
                 ELSE HoursRows(Tail(rows), hours)

parse_hours_table(table) == IF ~table.present THEN <<>> ELSE HoursRows(table.rows, <<>>)

\* the part of s before the first ch
BeforeFirst(s, ch) ==
    LET at == {p \in 1..Len(s) : s[p] = ch}
    IN IF at = {} THEN s ELSE SubSeq(s, 1, Min(at) - 1)

pick_img_src(img_tag) ==
    IF ~img_tag.present THEN <<>>
    ELSE LET src == Strip(img_tag.src)
             srcset == Strip(img_tag.srcset)
         IN IF src # <<>> THEN src
            ELSE IF srcset # <<>> THEN BeforeFirst(Strip(BeforeFirst(srcset, ",")), " ")
            ELSE <<>>

\* lines 142-164: the image a menu detail document gives
ImageOfDetail(doc, url) ==
    IF doc.og_image.present /\ doc.og_image.text # <<>>
    THEN to_abs_url(Strip(doc.og_image.text), url)
    ELSE IF doc.kds_img.present /\ pick_img_src(doc.kds_img) # <<>>
    THEN to_abs_url(pick_img_src(doc.kds_img), url)
    ELSE IF doc.first_img.present /\ pick_img_src(doc.first_img) # <<>>
    THEN to_abs_url(pick_img_src(doc.first_img), url)
    ELSE <<>>

\* lines 137-141: a fetch that raised gives ""
ImageOfFetched(r, url) == IF r.pc = "raised" THEN <<>> ELSE ImageOfDetail(r.value, url)

\* fetch_menu_image_from_detail(url), the network answering by script:
\* og:image, then .kds-line-height-0 img, then the first img, else ""
fetch_menu_image_from_detail(url, script) == ImageOfFetched(fetch(url, script), url)

\* os.getenv(name, default) of a variable that is [set, v]
GetEnv(var, default) == IF var.set THEN var.v ELSE default

\* line 168
follow_detail_of(MENU_IMG_FOLLOW) == Lower(GetEnv(MENU_IMG_FOLLOW, <<"t","r","u","e">>)) = <<"t","r","u","e">>

\* the group of Y\s*([\d,]+) for a Y at position p, <<>> when it does not match
PriceGroupAt(price_text, p) ==
    TakeWhile(Suffix(price_text, p + 1 + Len(TakeWhile(Suffix(price_text, p + 1), Whitespace))),
              DigitChars \cup {","})

\* int(group.replace(",", "")) inside try/except
PriceOfGroup(group) ==
    IF SelectSeq(group, LAMBDA c : c # ",") = <<>> THEN NoInt
    ELSE SomeInt(DigitsToInt(SelectSeq(group, LAMBDA c : c # ","), 0))

\* lines 173-179: re.search(r"Y\s*([\d,]+)", price_text); None when nothing
\* matches or int() raises
price_jpy_of(price_text) ==
    LET hits == {p \in 1..Len(price_text) :
                    price_text[p] = "Y" /\ PriceGroupAt(price_text, p) # <<>>}
    IN IF hits = {} THEN NoInt ELSE PriceOfGroup(PriceGroupAt(price_text, Min(hits)))

\* line 182
MenuUrl(a, base_url) == IF base_url # <<>> THEN urljoin(base_url, a.href) ELSE a.href

\* lines 187-190: the inline image of the anchor, made absolute
InlineImage(inline, menu_url, base_url) ==
    IF inline # <<>>
    THEN to_abs_url(inline, IF menu_url # <<>> THEN menu_url ELSE base_url)
    ELSE <<>>

\* a variant of line 193 that ignores MENU_IMG_FOLLOW
FollowsAlways(menu_img, follow_detail, menu_url) == menu_img = <<>> /\ menu_url # <<>>

\* line 193: is the menu's detail page fetched for its image?
Follows(menu_img, follow_detail, menu_url) ==
    menu_img = <<>> /\ follow_detail /\ menu_url # <<>>

\* lines 193-205
MenuItem(a, price_text, menu_url, menu_img, follows, net) ==
    [menu |-> [title |-> clean_text(a.title),
               price_jpy |-> price_jpy_of(price_text),
               price_raw |-> price_text,
               url |-> menu_url,
               menu_img |-> IF follows
                            THEN fetch_menu_image_from_detail(menu_url, net[menu_url])
                            ELSE menu_img],
     calls |-> IF follows THEN <<menu_url>> ELSE <<>>]

MenuWithImage(a, base_url, follow_detail, net, menu_url, menu_img) ==
    MenuItem(a, clean_text(a.price), menu_url, menu_img,
             Follows(menu_img, follow_detail, menu_url), net)

MenuWithUrl(a, base_url, follow_detail, net, menu_url) ==
    MenuWithImage(a, base_url, follow_detail, net, menu_url,
                  InlineImage(pick_img_src(a.img), menu_url, base_url))

\* lines 171-205: the menu item of one anchor, and the URL it fetched (if any)
MenuOfAnchor(a, base_url, follow_detail, net) ==
    MenuWithUrl(a, base_url, follow_detail, net, MenuUrl(a, base_url))

\* menus.append(...) in front of the items of the anchors that follow
ConsMenus(first, rest) ==
    [menus |-> <<first.menu>> \o rest.menus, calls |-> first.calls \o rest.calls]

\* extract_menus_from_scope(scope, base_url) on the anchors of the scope:
\* the menus, and the URLs passed to fetch_menu_image_from_detail in order
RECURSIVE extract_menus_from_scope(_, _, _, _)
extract_menus_from_scope(anchors, base_url, follow_detail, net) ==
    IF anchors = <<>> THEN [menus |-> <<>>, calls |-> <<>>]
    ELSE ConsMenus(MenuOfAnchor(Head(anchors), base_url, follow_detail, net),
                   extract_menus_from_scope(Tail(anchors), base_url, follow_detail, net))

\* table.get_text() cleaned and cut at 200 characters
First200(t) == SubSeq(t, 1, IF Len(t) < 200 THEN Len(t) ELSE 200)

TableText(table) ==
    First200(clean_text(Concat([k \in 1..Len(table.rows) |-> Concat(table.rows[k])])))

RECURSIVE MergeDefaults(_, _)
MergeDefaults(items, hours) ==
    IF items = <<>> THEN hours
    ELSE MergeDefaults(Tail(items), DictSetDefault(hours, Head(items)[1], Head(items)[2]))

\* extract_hours_from_scope(scope) on the tables of the scope
RECURSIVE extract_hours_from_scope(_, _)
extract_hours_from_scope(tables, hours) ==
    IF tables = <<>> THEN hours
    ELSE IF HasWeekDay(TableText(Head(tables)))
         THEN extract_hours_from_scope(Tail(tables),
                  MergeDefaults(parse_hours_table(Head(tables)), hours))
         ELSE extract_hours_from_scope(Tail(tables), hours)

\* the elements a whole-document scope selects: those of the cards first
RECURSIVE CardAnchors(_)
CardAnchors(els) ==
    IF els = <<>> THEN <<>> ELSE Head(els).anchors \o CardAnchors(Tail(els))

RECURSIVE CardTables(_)
CardTables(els) ==
    IF els = <<>> THEN <<>>
    ELSE (IF Head(els).table.present THEN <<Head(els).table>> ELSE <<>>)
         \o CardTables(Tail(els))

DocAnchors(doc) == CardAnchors(doc.cards) \o doc.anchors
DocTables(doc) == CardTables(doc.cards) \o doc.tables

\* line 224
CardClinicUrl(a_title, base_url) ==
    IF base_url # <<>> /\ a_title.present /\ a_title.has_href
    THEN urljoin(base_url, a_title.href)
    ELSE IF a_title.present /\ a_title.has_href THEN a_title.href ELSE <<>>

\* lines 219-254, m being extract_menus_from_scope(card, base_url)
CardWithMenus(card, base_url, m) ==
    [card |-> [name |-> clean_text(IF card.a_title.present THEN card.a_title.text ELSE <<>>),
               clinic_url |-> CardClinicUrl(card.a_title, base_url),
               rating |-> IF card.rating_el.present
                          THEN parse_float(card.rating_el.text) ELSE NoFloat,
               reviews |-> IF card.reviews_el.present
                           THEN to_int(card.reviews_el.text) ELSE NoInt,
               hours |-> parse_hours_table(card.table),
               menus |-> m.menus],
     calls |-> m.calls]

\* parse_card(card, base_url): the candidate, and the menu pages it fetched
parse_card(card, base_url, follow_detail, net) ==
    CardWithMenus(card, base_url,
                  extract_menus_from_scope(card.anchors, base_url, follow_detail, net))

ConsCards(first, rest) ==
    [cards |-> <<first.card>> \o rest.cards, calls |-> first.calls \o rest.calls]

\* line 258
RECURSIVE ParseCards(_, _, _, _)
ParseCards(els, base_url, follow_detail, net) ==
    IF els = <<>> THEN [cards |-> <<>>, calls |-> <<>>]
    ELSE ConsCards(parse_card(Head(els), base_url, follow_detail, net),
                   ParseCards(Tail(els), base_url, follow_detail, net))

\* h1 or title
FirstNonEmpty(a, b) == IF a # <<>> THEN a ELSE b

\* lines 260-266: the candidate of a page without cards
FallbackCard(doc, page_url) ==
    [name |-> FirstNonEmpty(clean_text(doc.h1.text), clean_text(doc.title)),
     clinic_url |-> page_url,
     rating |-> NoFloat, reviews |-> NoInt, hours |-> <<>>, menus |-> <<>>]

\* a variant of parse_page without its fallback
WithoutFallback(parsed, doc, page_url) == parsed

\* lines 259-267
WithFallback(parsed, doc, page_url) ==
    IF parsed.cards = <<>>
    THEN [cards |-> <<FallbackCard(doc, page_url)>>, calls |-> parsed.calls]
    ELSE parsed

parse_page(doc, page_url, follow_detail, net) ==
    WithFallback(ParseCards(doc.cards, page_url, follow_detail, net), doc, page_url)

----------------------------------------------------------------------------
(* check_url_exists, build_target_urls_auto *)

\* check_url_exists(url): head and get are what requests.head and
\* requests.get give (a response or an exception)
check_url_exists(head, get) ==
    IF head.kind = "exception" THEN FALSE
    ELSE IF head.status \in {405, 403}
         THEN (IF get.kind = "exception" THEN FALSE ELSE get.status = 200)
         ELSE head.status = 200

BaseUrl == <<"h","t","t","p","s",":","/","/","k","i","r","e","i","r","e","p","o","r","t",".","c","o","m","/","c","l","i","n","i","c","s">>

\* line 78
DiscoveryUrl(n) == BaseUrl \o <<"/">> \o ZeroPad(IntToDigits(n), 4)

\* str.isdigit()
IsDigitString(s) == s # <<>> /\ \A k \in 1..Len(s) : IsDigit(s[k])

SystemExit(msg) == [type |-> "SystemExit", status |-> 0, msg |-> msg]
NoFailure == [type |-> "None", status |-> 0, msg |-> ""]
Propagated(exc) == [type |-> exc.type, status |-> exc.status, msg |-> ""]

----------------------------------------------------------------------------
(* main: completion and assembly of one candidate *)

\* line 426
EffectiveClinicUrl(c, source_page_url) ==
    IF c.clinic_url # <<>> THEN c.clinic_url ELSE source_page_url

NeedMenus(c) == Len(c.menus) = 0
NeedHours(c) == Len(c.hours) = 0

\* a variant of line 434 that never reuses the page already fetched
FetchesDetailAlways(c, source_page_url) ==
    NeedMenus(c) \/ NeedHours(c)

\* line 434: does completion call fetch(clinic_url)?
FetchesDetail(c, source_page_url) ==
    /\ NeedMenus(c) \/ NeedHours(c)
    /\ EffectiveClinicUrl(c, source_page_url) # source_page_url

\* lines 438-439 and 442-443: a non-empty extraction replaces the field
MergeExtra(c, extra, extra_hours) ==
    [card |-> [c EXCEPT !.menus = IF extra.menus # <<>> THEN extra.menus ELSE @,
                        !.hours = IF extra_hours # <<>> THEN extra_hours ELSE @],
     detail |-> "", doc |-> BlankDoc, calls |-> extra.calls, exc |-> NoExc]

\* lines 435-443: the candidate completed from the detail document
CompletedFrom(c, doc, clinic_url, follow_detail, net) ==
    MergeExtra(c,
               IF NeedMenus(c)
               THEN extract_menus_from_scope(DocAnchors(doc), clinic_url, follow_detail, net)
               ELSE [menus |-> <<>>, calls |-> <<>>],
               IF NeedHours(c) THEN extract_hours_from_scope(DocTables(doc), <<>>)
               ELSE <<>>)

\* a variant of completion without its except clause
DetailFailurePropagates(c, exc) ==
    [card |-> c, detail |-> "failed", doc |-> BlankDoc, calls |-> <<>>, exc |-> exc]

\* lines 444-445: the except clause of completion
DetailFailure(c, exc) ==
    [card |-> c, detail |-> "failed", doc |-> BlankDoc, calls |-> <<>>, exc |-> NoExc]

\* line 434 on, r being what fetch(clinic_url) gave
CompletedFromFetched(c, r, clinic_url, follow_detail, net) ==
    IF r.pc = "raised" THEN DetailFailure(c, r.last_exc)
    ELSE [CompletedFrom(c, r.value, clinic_url, follow_detail, net)
             EXCEPT !.detail = "fetched", !.doc = r.value]

\* lines 430-445: the candidate after completion, how the detail document
\* was obtained and what it is, the menu pages fetched on the way and the
\* exception that leaves the step
CompletionAt(c, source_page_url, page, follow_detail, script, net, clinic_url) ==
    IF ~(NeedMenus(c) \/ NeedHours(c))
    THEN [card |-> c, detail |-> "not_needed", doc |-> BlankDoc, calls |-> <<>>,
          exc |-> NoExc]
    ELSE IF FetchesDetail(c, source_page_url)
    THEN CompletedFromFetched(c, fetch(clinic_url, script), clinic_url, follow_detail, net)
    ELSE [CompletedFrom(c, page, clinic_url, follow_detail, net)
             EXCEPT !.detail = "reused", !.doc = page]

Completion(c, source_page_url, page, follow_detail, script, net) ==
    CompletionAt(c, source_page_url, page, follow_detail, script, net,
                 EffectiveClinicUrl(c, source_page_url))

\* a variant of lines 451-456 that joins a fragment, possibly empty, per fact
NotesPlaceholders(c) ==
    JoinWith(<<IF c.rating.some THEN <<"r","a","t","i","n","g","=">> \o FloatStr(c.rating) ELSE <<>>,
               IF c.reviews.some THEN <<"r","e","v","i","e","w","s","=">> \o IntToDigits(c.reviews.v) ELSE <<>>,
               IF Len(c.menus) = 0 THEN <<"m","e","n","u","s","=","0">> ELSE <<>>,
               IF Len(c.hours) = 0 THEN <<"h","o","u","r","s","=","0">> ELSE <<>>>>, <<","," ">>)

\* lines 451-456
Notes(c) ==
    JoinWith((IF c.rating.some THEN <<<<"r","a","t","i","n","g","=">> \o FloatStr(c.rating)>> ELSE <<>>)
             \o (IF c.reviews.some THEN <<<<"r","e","v","i","e","w","s","=">> \o IntToDigits(c.reviews.v)>> ELSE <<>>)
             \o (IF Len(c.menus) = 0 THEN <<<<"m","e","n","u","s","=","0">>>> ELSE <<>>)
             \o (IF Len(c.hours) = 0 THEN <<<<"h","o","u","r","s","=","0">>>> ELSE <<>>),
             <<","," ">>)

\* lines 459-477; hours_json holds the items json.dumps serialises
ClinicRow(c, source_page_url) ==
    LET clinic_url == EffectiveClinicUrl(c, source_page_url) IN
    [clinic_id |-> get_clinic_id_from_url(clinic_url),
     name |-> c.name,
     rating |-> c.rating,
     reviews_count |-> c.reviews,
     clinic_url |-> clinic_url,
     source_page_url |-> source_page_url,
     hours_json |-> c.hours,
     status |-> "ok",
     notes |-> Notes(c)]

\* lines 480-491
MenuRows(c, source_page_url) ==
    LET clinic_id == get_clinic_id_from_url(EffectiveClinicUrl(c, source_page_url)) IN
    [k \in 1..Len(c.menus) |->
        [clinic_id |-> clinic_id,
         menu_title |-> c.menus[k].title,
         price_jpy |-> c.menus[k].price_jpy,
         price_raw |-> c.menus[k].price_raw,
         menu_url |-> c.menus[k].url,
         menu_img |-> c.menus[k].menu_img]]

\* lines 494-503, without the open_time and close_time split of raw
HoursRowsOf(c, source_page_url) ==
    LET clinic_id == get_clinic_id_from_url(EffectiveClinicUrl(c, source_page_url)) IN
    [k \in 1..Len(c.hours) |->
        [clinic_id |-> clinic_id, day |-> c.hours[k][1], raw |-> c.hours[k][2]]]

----------------------------------------------------------------------------
(* The documents and the network of the runs of main *)

ImgUrl == <<"h","t","t","p","s",":","/","/","i","m","g",".","k","i","r","e","i","r","e","p","o","r","t",".","c","o","m","/","m",".","p","n","g">>

AnchorInline ==
    [title |-> <<"B","o","t","o","x">>, price |-> <<"Y"," ","1","2",",","0","0","0">>, href |-> <<"/","m","e","n","u","s","/","1","1">>,
     img |-> Img(<<" ","/","i","m","g","/","b","o","t","o","x",".","p","n","g"," ">>, <<>>)]
AnchorSrcset ==
    [title |-> <<"P","e","e","l">>, price |-> <<"f","r","o","m"," ","Y","9","8","0"," ">>, href |-> <<"/","m","e","n","u","s","/","1","2">>,
     img |-> Img(<<>>, <<"/","/","c","d","n",".","k","i","r","e","i","r","e","p","o","r","t",".","c","o","m","/","p",".","p","n","g"," ","1","x",","," ","/","/","c","d","n",".","k","i","r","e","i","r","e","p","o","r","t",".","c","o","m","/","p","2",".","p","n","g"," ","2","x">>)]
AnchorNoImg ==
    [title |-> <<"L","a","s","e","r"," "," ","h","a","i","r"," ","r","e","m","o","v","a","l">>, price |-> <<"Y","3",",","0","0","0">>, href |-> <<"/","m","e","n","u","s","/","1","3">>,
     img |-> NoImg]
AnchorEmptyImg ==
    [title |-> <<"C","o","n","s","u","l","t","a","t","i","o","n">>, price |-> <<"f","r","e","e">>, href |-> <<>>,
     img |-> Img(<<>>, <<>>)]

HoursTable ==
    Table(<< <<>>,
             <<<<"Mon">>, <<"1","0",":","0","0","-","1","9",":","0","0">>>>,
             <<<<"c","l","o","s","e","d">>>>,
             <<<<"Sat", "Sun">>, <<" ","1","0",":","0","0"," ","-"," ","1","7",":","0","0"," ">>, <<"b","y"," ","a","p","p","o","i","n","t","m","e","n","t">>>>,
             <<<<"h","o","l","i","d","a","y","s">>, <<"c","l","o","s","e","d">>>> >>)
DetailHoursTable ==
    Table(<< <<<<"Tue">>, <<"9",":","3","0","-","1","8",":","0","0">>>>, <<<<"Tue">>, <<"9",":","0","0","-","1","8",":","0","0">>>> >>)
PriceTable == Table(<< <<<<"f","i","r","s","t"," ","v","i","s","i","t">>, <<"Y","1",",","0","0","0">>>> >>)

CardFull ==
    [a_title |-> TitleLink(<<" ","S","a","m","p","l","e"," "," ","C","l","i","n","i","c"," ">>, <<"/","c","l","i","n","i","c","s","/","0","0","0","7">>),
     rating_el |-> El(<<" ","4",".","5","0"," ">>), reviews_el |-> El(<<"1",",","2","0","4"," ","r","e","v","i","e","w","s">>),
     anchors |-> <<AnchorInline>>, table |-> HoursTable]
CardNoHours ==
    [a_title |-> TitleLink(<<"S","a","m","p","l","e"," ","C","l","i","n","i","c">>, <<"/","c","l","i","n","i","c","s","/","0","0","0","7">>),
     rating_el |-> El(<<"4",".","5">>), reviews_el |-> El(<<"1","2","0">>),
     anchors |-> <<AnchorNoImg>>, table |-> NoTable]
CardBare ==
    [a_title |-> NoTitleLink,
     rating_el |-> El(<<"n","/","a">>), reviews_el |-> El(<<"n","o"," ","r","e","v","i","e","w","s">>),
     anchors |-> <<>>, table |-> NoTable]
CardNoMenus ==
    [a_title |-> TitleLink(<<"S","e","c","o","n","d"," ","C","l","i","n","i","c">>, <<"0","0","0","8">>),
     rating_el |-> NoEl, reviews_el |-> El(<<"7">>),
     anchors |-> <<>>, table |-> HoursTable]

\* listing pages
PageBlank == [BlankDoc EXCEPT !.title = <<"C","l","i","n","i","c","s"," ","|"," ","R","e","p","o","r","t">>]
PageSingle ==
    [BlankDoc EXCEPT !.title = <<"C","l","i","n","i","c"," ","O","n","e"," ","|"," ","R","e","p","o","r","t">>, !.h1 = El(<<"C","l","i","n","i","c"," ","O","n","e">>),
                     !.anchors = <<AnchorSrcset, AnchorEmptyImg>>,
                     !.tables = <<PriceTable, HoursTable>>]
PageOneCard == [BlankDoc EXCEPT !.title = <<"R","a","n","k","i","n","g">>, !.cards = <<CardNoHours>>]
PageTwoCards == [BlankDoc EXCEPT !.title = <<"R","a","n","k","i","n","g">>, !.cards = <<CardFull, CardBare>>]
PageNoMenus == [BlankDoc EXCEPT !.title = <<"R","a","n","k","i","n","g">>, !.cards = <<CardNoMenus>>]
\* a listing page that lists the same clinic twice
PageRepeated == [BlankDoc EXCEPT !.cards = <<CardFull, CardNoHours>>]

PageDocs == {PageBlank, PageSingle, PageOneCard, PageTwoCards, PageNoMenus, PageRepeated}

\* clinic detail pages
DetailFull ==
    [BlankDoc EXCEPT !.h1 = El(<<"S","a","m","p","l","e"," ","C","l","i","n","i","c">>), !.anchors = <<AnchorInline, AnchorNoImg>>,
                     !.tables = <<PriceTable, DetailHoursTable>>]
DetailEmpty == [BlankDoc EXCEPT !.h1 = El(<<"S","a","m","p","l","e"," ","C","l","i","n","i","c">>)]

\* menu detail pages
MenuDocOg == [BlankDoc EXCEPT !.og_image = El(ImgUrl), !.first_img = Img(<<"/","l","o","g","o",".","p","n","g">>, <<>>)]
MenuDocImg == [BlankDoc EXCEPT !.first_img = Img(<<"/","l","o","g","o",".","p","n","g">>, <<>>)]

Unavailable ==
    <<Response(503, BlankDoc), TransportError("Timeout"), Response(404, BlankDoc)>>

PageScripts ==
    {<<Response(200, d)>> : d \in PageDocs}
    \cup {<<TransportError("ConnectionError"), Response(200, PageOneCard)>>, Unavailable}

DetailScripts ==
    {<<Response(200, DetailFull)>>,
     <<Response(500, BlankDoc), TransportError("Timeout"), Response(200, DetailEmpty)>>,
     Unavailable}

MenuImgScripts ==
    {<<Response(200, MenuDocOg)>>,
     <<TransportError("Timeout"), Response(200, MenuDocImg)>>,
     Unavailable}

\* what requests.head and requests.get give check_url_exists
HeadAnswers ==
    {Response(200, ""), Response(404, ""), Response(403, ""), Response(405, ""),
     TransportError("Timeout")}
GetAnswers == {Response(200, ""), Response(404, ""), TransportError("Timeout")}

Unset == [set |-> FALSE, v |-> <<>>]
SetTo(v) == [set |-> TRUE, v |-> v]

Target1 == BaseUrl \o <<"/","0","0","0","1">>
Target2 == BaseUrl \o <<"/","0","0","0","2">>

\* the environments of the runs: an explicit list, or discovery up to END_ID
ExplicitEnvs ==
    {[TARGET_URLS |-> t, END_ID |-> Unset, MENU_IMG_FOLLOW |-> m, GSHEET |-> g] :
        t \in {Target1, <<" ">> \o Target1 \o Target2 \o <<",","\n">> \o Target1 \o <<"\n">>},
        m \in {Unset, SetTo(<<"T","r","u","e">>), SetTo(<<"0">>)},
        g \in {TRUE}}

DiscoveryEnvs ==
    {[TARGET_URLS |-> t, END_ID |-> e, MENU_IMG_FOLLOW |-> SetTo(<<"f","a","l","s","e">>), GSHEET |-> g] :
        t \in {<<>>, <<"k","i","r","e","i","r","e","p","o","r","t",".","c","o","m","/","c","l","i","n","i","c","s","/","0","0","0","1",","," ">>},
        e \in {SetTo(<<"a","l","l">>)} \cup {SetTo(IntToDigits(n)) : n \in 0..MaxEndId},
        g \in {FALSE}}

Envs == ExplicitEnvs \cup DiscoveryEnvs

----------------------------------------------------------------------------
(* main *)

FetchCallOf(by, url) == [fn |-> "fetch", by |-> by, url |-> url]
ProbeOf(url) == [fn |-> "check_url_exists", by |-> "build_target_urls_auto", url |-> url]

MenuImgCalls(urls_fetched) ==
    [k \in 1..Len(urls_fetched) |->
        FetchCallOf("fetch_menu_image_from_detail", urls_fetched[k])]

\* the menu pages the anchors of a scope can lead to
MenuUrls(anchors, base_url) == {urljoin(base_url, anchors[k].href) : k \in 1..Len(anchors)}

follow_detail == follow_detail_of(env.MENU_IMG_FOLLOW)

EndIdStr == GetEnv(env.END_ID, <<"9","9","9","9">>)

\* the loops of lines 419 and 425: where main goes after candidate k of the
\* candidates cs of page idx (k = 0: after parse_page)
AfterCandidate(k, cs) ==
    IF k < Len(cs) THEN "complete"
    ELSE IF idx < Len(urls) THEN "fetch_page"
    ELSE "save"

MStart(e) ==
    /\ env = e
    /\ pc = "start"
    /\ urls = <<>>
    /\ valid_urls = <<>>
    /\ cid = 0
    /\ idx = 0
    /\ html = BlankDoc
    /\ cards = <<>>
    /\ ci = 0
    /\ detail = [how |-> "none", doc |-> BlankDoc]
    /\ clinics_rows = <<>>
    /\ menus_rows = <<>>
    /\ hours_rows = <<>>
    /\ main_exc = NoFailure
    /\ sinks = <<>>
    /\ net_log = <<>>
    /\ pages_seen = <<>>

MInit == \E e \in Envs : MStart(e)

\* the state of main in the runs of the drivers of single functions
MIdle == MStart([TARGET_URLS |-> <<>>, END_ID |-> Unset, MENU_IMG_FOLLOW |-> Unset,
                 GSHEET |-> FALSE])

\* lines 406-408 and 71-76: the explicit list, else the start of discovery
ResolveTargets ==
    /\ pc = "start"
    /\ LET explicit == load_urls_from_env(env.TARGET_URLS) IN
       IF explicit # <<>>
       THEN /\ urls' = explicit
            /\ pc' = "targets"
            /\ UNCHANGED <<cid, main_exc>>
       ELSE IF ~IsDigitString(EndIdStr)
       THEN /\ main_exc' = SystemExit("END_ID must be numeric")
            /\ pc' = "aborted"
            /\ UNCHANGED <<urls, cid>>
       ELSE /\ cid' = 1
            /\ pc' = "discover"
            /\ UNCHANGED <<urls, main_exc>>
    /\ UNCHANGED <<env, valid_urls, idx, html, cards, ci, detail, clinics_rows,
                   menus_rows, hours_rows, sinks, net_log, pages_seen>>
    /\ UNCHANGED <<uvars, f>>

\* lines 77-84: one iteration of the discovery loop
Probe ==
    /\ pc = "discover"
    /\ cid <= DigitsToInt(EndIdStr, 0)
    /\ \E head \in HeadAnswers, get \in GetAnswers :
          valid_urls' = IF check_url_exists(head, get)
                        THEN Append(valid_urls, DiscoveryUrl(cid))
                        ELSE valid_urls
    /\ net_log' = Append(net_log, ProbeOf(DiscoveryUrl(cid)))
    /\ cid' = cid + 1
    /\ UNCHANGED <<env, pc, urls, idx, html, cards, ci, detail, clinics_rows,
                   menus_rows, hours_rows, main_exc, sinks, pages_seen>>
    /\ UNCHANGED <<uvars, f>>

\* line 85 and line 408: discovery returns valid_urls
DiscoveryReturns ==
    /\ pc = "discover"
    /\ cid > DigitsToInt(EndIdStr, 0)
    /\ urls' = valid_urls
    /\ pc' = "targets"
    /\ UNCHANGED <<env, valid_urls, cid, idx, html, cards, ci, detail, clinics_rows,
                   menus_rows, hours_rows, main_exc, sinks, net_log, pages_seen>>
    /\ UNCHANGED <<uvars, f>>

\* a variant of lines 409-417 in which no target is not fatal
CheckTargetsNoAbort ==
    /\ pc = "targets"
    /\ sinks' = sinks \o <<"output_dir">> \o (IF env.GSHEET THEN <<"targets_sheet">> ELSE <<>>)
    /\ idx' = 1
    /\ pc' = IF urls = <<>> THEN "save" ELSE "fetch_page"
    /\ UNCHANGED <<env, urls, valid_urls, cid, html, cards, ci, detail, clinics_rows,
                   menus_rows, hours_rows, main_exc, net_log, pages_seen>>
    /\ UNCHANGED <<uvars, f>>

\* lines 409-417: no target is fatal; else the output directory and the
\* targets sheet (GSHEET standing for WRITE_TARGETS_SHEET and the
\* credentials) are written and the page loop starts
CheckTargets ==
    /\ pc = "targets"
    /\ IF urls = <<>>
       THEN /\ main_exc' = SystemExit("No valid clinic pages found")
            /\ pc' = "aborted"
            /\ UNCHANGED <<sinks, idx>>
       ELSE /\ sinks' = sinks \o <<"output_dir">>
                        \o (IF env.GSHEET THEN <<"targets_sheet">> ELSE <<>>)
            /\ idx' = 1
            /\ pc' = "fetch_page"
            /\ UNCHANGED main_exc
    /\ UNCHANGED <<env, urls, valid_urls, cid, html, cards, ci, detail, clinics_rows,
                   menus_rows, hours_rows, net_log, pages_seen>>
    /\ UNCHANGED <<uvars, f>>

\* lines 420-421: fetch(source_page_url); what it raises leaves main
FetchPage ==
    /\ pc = "fetch_page"
    /\ \E script \in PageScripts :
        \E r \in {fetch(urls[idx], script)} :
          IF r.pc = "raised"
          THEN /\ main_exc' = Propagated(r.last_exc)
               /\ pc' = "aborted"
               /\ UNCHANGED <<html, pages_seen>>
          ELSE /\ html' = r.value
               /\ pc' = "parse"
               /\ pages_seen' = Append(pages_seen, [url |-> urls[idx],
                                                    n_cards |-> Len(r.value.cards)])
               /\ UNCHANGED main_exc
    /\ net_log' = Append(net_log, FetchCallOf("main.page", urls[idx]))
    /\ UNCHANGED <<env, urls, valid_urls, cid, idx, cards, ci, detail, clinics_rows,
                   menus_rows, hours_rows, sinks>>
    /\ UNCHANGED <<uvars, f>>

\* lines 422-423: parse_page(html, source_page_url)
ParsePage ==
    /\ pc = "parse"
    /\ \E net \in [MenuUrls(CardAnchors(html.cards), urls[idx]) -> MenuImgScripts] :
        \E parsed \in {parse_page(html, urls[idx], follow_detail, net)} :
          /\ cards' = parsed.cards
          /\ net_log' = net_log \o MenuImgCalls(parsed.calls)
          /\ pc' = AfterCandidate(0, parsed.cards)
          /\ idx' = IF pc' = "fetch_page" THEN idx + 1 ELSE idx
    /\ ci' = 1
    /\ UNCHANGED <<env, urls, valid_urls, cid, html, detail, clinics_rows,
                   menus_rows, hours_rows, main_exc, sinks, pages_seen>>
    /\ UNCHANGED <<uvars, f>>

\* lines 426-445: completion of candidate ci
Complete ==
    /\ pc = "complete"
    /\ LET c == cards[ci]
           clinic_url == EffectiveClinicUrl(c, urls[idx])
       IN \E script \in DetailScripts :
            \E net \in [MenuUrls(DocAnchors(html), clinic_url)
                         \cup MenuUrls(DocAnchors(script[Len(script)].text), clinic_url)
                         -> MenuImgScripts] :
             \E done \in {Completion(c, urls[idx], html, follow_detail, script, net)} :
               /\ IF done.exc # NoExc
                  THEN /\ main_exc' = Propagated(done.exc)
                       /\ pc' = "aborted"
                  ELSE /\ pc' = "assemble"
                       /\ UNCHANGED main_exc
               /\ cards' = [cards EXCEPT ![ci] = done.card]
               /\ detail' = [how |-> done.detail, doc |-> done.doc]
               /\ net_log' = net_log
                             \o (IF done.detail \in {"fetched", "failed"}
                                 THEN <<FetchCallOf("main.detail", clinic_url)>> ELSE <<>>)
                             \o MenuImgCalls(done.calls)
    /\ UNCHANGED <<env, urls, valid_urls, cid, idx, html, ci, clinics_rows,
                   menus_rows, hours_rows, sinks, pages_seen>>
    /\ UNCHANGED <<uvars, f>>

\* lines 447-505: the rows of candidate ci, then the next candidate, the
\* next page or the end of the loop
Assemble ==
    /\ pc = "assemble"
    /\ clinics_rows' = Append(clinics_rows, ClinicRow(cards[ci], urls[idx]))
    /\ menus_rows' = menus_rows \o MenuRows(cards[ci], urls[idx])
    /\ hours_rows' = hours_rows \o HoursRowsOf(cards[ci], urls[idx])
    /\ pc' = AfterCandidate(ci, cards)
    /\ ci' = IF pc' = "complete" THEN ci + 1 ELSE ci
    /\ idx' = IF pc' = "fetch_page" THEN idx + 1 ELSE idx
    /\ UNCHANGED <<env, urls, valid_urls, cid, html, cards, detail, main_exc, sinks,
                   net_log, pages_seen>>
    /\ UNCHANGED <<uvars, f>>

\* lines 508-522: the files, then the three sheets when the credentials are set
Save ==
    /\ pc = "save"
    /\ sinks' = sinks \o <<"clinics.csv", "menus.csv", "hours.csv", "cards.json">>
                \o (IF env.GSHEET THEN <<"clinics_sheet", "menus_sheet", "hours_sheet">>
                    ELSE <<>>)
    /\ pc' = "done"
    /\ UNCHANGED <<env, urls, valid_urls, cid, idx, html, cards, ci, detail, clinics_rows,
                   menus_rows, hours_rows, main_exc, net_log, pages_seen>>
    /\ UNCHANGED <<uvars, f>>

Next ==
    \/ ResolveTargets
    \/ Probe
    \/ DiscoveryReturns
    \/ CheckTargets
    \/ FetchPage
    \/ ParsePage
    \/ Complete
    \/ Assemble
    \/ Save


----------------------------------------------------------------------------
(* Driver of load_urls_from_env: TARGET_URLS values built from pieces *)

UrlA  == HTTP \o <<"a">>
UrlB  == HTTPS \o <<"b">>
UrlC  == HTTPS \o <<"a", ",", "c">>      \* a URL with a comma in its path
UrlD  == HTTPS \o <<"w", "/">> \o UrlA   \* a URL that embeds another one

UrlPieces  == {UrlA, UrlB, UrlC, UrlD}
PlainUrls  == {UrlA, UrlB}               \* no separator, no embedded scheme
SepPieces  == {<<",">>, <<" ">>, <<"\n">>, <<",", " ">>}
JunkPieces == {<<"x">>, <<"h","t","t","p">>, <<":","/","/","a">>}
Pieces     == UrlPieces \cup SepPieces \cup JunkPieces

UInit ==
    /\ u_parts = <<>>
    /\ u_sep = <<>>
    /\ u_raw = <<>>
    /\ u_uniq = <<>>
    /\ u_alt_raw = <<>>
    /\ u_alt_uniq = <<>>
    /\ u_pc = "build"

AddPiece ==
    /\ u_pc = "build"
    /\ Len(u_parts) < MaxPieces
    /\ \E p \in Pieces : u_parts' = Append(u_parts, p)
    /\ UNCHANGED <<u_sep, u_raw, u_uniq, u_alt_raw, u_alt_uniq, u_pc, f, mvars>>

\* two runs of load_urls_from_env: on the pieces concatenated directly and
\* on the pieces joined by a separator
LoadUrls ==
    /\ u_pc = "build"
    /\ \E sep \in SepPieces :
          /\ u_sep' = sep
          /\ u_raw' = Concat(u_parts)
          /\ u_alt_raw' = JoinWith(u_parts, sep)
    /\ u_uniq' = load_urls_from_env(u_raw')
    /\ u_alt_uniq' = load_urls_from_env(u_alt_raw')
    /\ u_pc' = "loaded"
    /\ UNCHANGED <<u_parts, f, mvars>>

InitUrls == UInit /\ f = IdleFrame /\ MIdle

NextUrls == AddPiece \/ LoadUrls

SpecUrls == InitUrls /\ [][NextUrls]_vars

\* a run of main
Init == UInit /\ f = IdleFrame /\ MInit

Spec == Init /\ [][Next]_vars

----------------------------------------------------------------------------
(* Properties of load_urls_from_env *)

NoDuplicates(s) == \A i, j \in 1..Len(s) : s[i] = s[j] => i = j

FirstIndex(s, x) == CHOOSE i \in 1..Len(s) : s[i] = x /\ \A j \in 1..(i - 1) : s[j] # x

FirstOccurrenceOrder(out, found) ==
    \A i, j \in 1..Len(out) :
        i < j => FirstIndex(found, out[i]) < FirstIndex(found, out[j])

DedupOf(out, found) ==
    /\ NoDuplicates(out)
    /\ Range(out) = Range(found)
    /\ FirstOccurrenceOrder(out, found)

\* C7: the sequence load_urls_from_env returns has no duplicate, holds every
\* distinct URL found in the input, and orders them by first occurrence.
C7_DedupFirstWins ==
    u_pc = "loaded" =>
        /\ DedupOf(u_uniq, found_urls(u_raw))
        /\ DedupOf(u_alt_uniq, found_urls(u_alt_raw))
        /\ Range(u_parts) \subseteq PlainUrls =>
              /\ DedupOf(u_uniq, u_parts)
              /\ DedupOf(u_alt_uniq, u_parts)

\* a run whose input repeats a URL after a different one
C7_Witness ==
    /\ u_pc = "loaded"
    /\ u_parts = <<UrlA, UrlB, UrlA>>
    /\ u_uniq = <<UrlA, UrlB>>

\* C8: for a list of http(s) URLs, the URLs concatenated directly give the
\* same set as the URLs joined by commas or whitespace.
C8_ConcatSameSet ==
    (u_pc = "loaded" /\ Range(u_parts) \subseteq UrlPieces) =>
        Range(u_uniq) = Range(u_alt_uniq)

\* two URLs concatenated directly, and the same two joined by a comma
C8_Witness ==
    /\ u_pc = "loaded"
    /\ u_parts = <<UrlB, UrlA>>
    /\ u_sep = <<",">>
    /\ u_raw = UrlB \o UrlA
    /\ Range(u_uniq) = {UrlA, UrlB}
    /\ Range(u_alt_uniq) = {UrlA, UrlB}

----------------------------------------------------------------------------
(* Driver of fetch: one call, the network answering each request *)

FetchTexts == {"text-1", "text-2"}

NetworkAnswers ==
    {Response(200, t) : t \in FetchTexts}
    \cup {Response(204, ""), Response(300, "text-1")}
    \cup {Response(404, "text-2"), Response(503, "")}
    \cup {TransportError("Timeout"), TransportError("ConnectionError")}

FetchCall ==
    /\ f.pc = "idle"
    /\ \E url \in {UrlA, UrlB} : f' = FetchEnter(url)
    /\ UNCHANGED <<uvars, mvars>>

FetchAttempt ==
    /\ f.pc = "loop"
    /\ f.i < RETRY
    /\ \E r \in NetworkAnswers : f' = FetchIteration(f, r)
    /\ UNCHANGED <<uvars, mvars>>

FetchExhausted ==
    /\ f.pc = "loop"
    /\ f.i >= RETRY
    /\ f' = FetchRaise(f)
    /\ UNCHANGED <<uvars, mvars>>

InitFetch == UInit /\ f = IdleFrame /\ MIdle

NextFetch == FetchCall \/ FetchAttempt \/ FetchExhausted

SpecFetch == InitFetch /\ [][NextFetch]_vars

Is2xx(status) == 200 <= status /\ status < 300

Failed(r) == r.kind = "exception" \/ ~Is2xx(r.status)

\* C3: fetch makes at most RETRY requests, returns the text of the first
\* request answered with a 2xx status (and stops there), counts a non-2xx
\* status as a failed attempt, and raises the third failure when all fail.
C3_FetchContract ==
    /\ Len(f.requests) <= RETRY
    /\ f.pc = "returned" =>
          /\ ~Failed(f.requests[Len(f.requests)])
          /\ f.value = f.requests[Len(f.requests)].text
          /\ \A k \in 1..(Len(f.requests) - 1) : Failed(f.requests[k])
    /\ (f.pc = "loop" /\ f.requests # <<>>) =>
          \A k \in 1..Len(f.requests) : Failed(f.requests[k])
    /\ f.pc = "raised" =>
          /\ Len(f.requests) = RETRY
          /\ \A k \in 1..RETRY : Failed(f.requests[k])
          /\ f.last_exc = AttemptException(f.requests[RETRY])

----------------------------------------------------------------------------
(* Properties of a run of main *)

\* the entries a step adds to the log of network calls
NewCalls == SubSeq(net_log', Len(net_log) + 1, Len(net_log'))
NewCallsBy(by) == SelectSeq(NewCalls, LAMBDA e : e.by = by)

\* C1: a target page whose fetch fails (all retries exhausted) does not end
\* the run: main goes on to the later URLs, so the only run that ends
\* without saving is the run that found no target at all.
C1_FailedPageIsSkipped == pc = "aborted" => urls = <<>>

\* the rows of clinics_rows that come from page u
RowsOfPage(u) == {k \in 1..Len(clinics_rows) : clinics_rows[k].source_page_url = u}

\* main is past page k of the pages it fetched: in a later page, after the
\* loop, or stopped
PageSettled(k) == k < idx \/ pc \in {"save", "done", "aborted"}

\* C2: every target page whose fetch succeeded has, once main is past it, at
\* least one row of clinics_rows with that page as source_page_url, whatever
\* completion did; a page without card elements has exactly one such row, and
\* the clinic_url of that row is the URL of the page.
C2_FetchedPageYieldsRow ==
    \A k \in 1..Len(pages_seen) :
        PageSettled(k) =>
            /\ RowsOfPage(pages_seen[k].url) # {}
            /\ pages_seen[k].n_cards = 0 =>
                  /\ Cardinality(RowsOfPage(pages_seen[k].url)) = 1
                  /\ \A r \in RowsOfPage(pages_seen[k].url) :
                        clinics_rows[r].clinic_url = pages_seen[k].url

\* a run over two pages ends after a page without cards and a page whose
\* candidate lost its detail fetch
C2_Witness ==
    /\ pc = "done"
    /\ Len(pages_seen) = 2
    /\ pages_seen[1].n_cards = 0
    /\ pages_seen[2].n_cards = 1
    /\ detail.how = "failed"
    /\ Cardinality(RowsOfPage(pages_seen[1].url)) = 1

\* C4: a detail fetch that fails during completion is swallowed: the step
\* leaves every candidate as parse_page produced it and main goes on to
\* assemble; the candidate then gets its clinic row, one menu row per menu
\* and one hours row per day it had, and main moves to the next candidate,
\* the next page or the end of the loop.
C4_DetailFailureSwallowed ==
    [][/\ (pc = "complete" /\ detail'.how = "failed") =>
              /\ pc' = "assemble"
              /\ main_exc' = main_exc
              /\ cards' = cards
       /\ (pc = "assemble" /\ detail.how = "failed") =>
              /\ Len(clinics_rows') = Len(clinics_rows) + 1
              /\ clinics_rows'[Len(clinics_rows')].hours_json = cards[ci].hours
              /\ clinics_rows'[Len(clinics_rows')].source_page_url = urls[idx]
              /\ Len(menus_rows') = Len(menus_rows) + Len(cards[ci].menus)
              /\ Len(hours_rows') = Len(hours_rows) + Len(cards[ci].hours)
              /\ main_exc' = main_exc
              /\ pc' = IF ci < Len(cards) THEN "complete"
                       ELSE IF idx < Len(urls) THEN "fetch_page" ELSE "save"]_vars

\* the first page's candidate lost its detail fetch, its clinic row and its
\* menu row are there, and main is about to fetch the second page
C4_Witness ==
    /\ pc = "fetch_page"
    /\ idx = 2
    /\ detail.how = "failed"
    /\ Len(clinics_rows) = 1
    /\ menus_rows # <<>>

\* C5: completion of a candidate fetches the detail page if and only if
\* menus or hours is empty and the effective clinic_url (the page URL when
\* the candidate has none) differs from the source page URL, and then it is
\* one fetch of that URL; when they are equal the page already fetched is the
\* document used and no page is fetched; a candidate with menus and hours
\* causes no network call and is left as it is.
C5_DetailFetchIffNeeded ==
    [][pc = "complete" =>
          LET c == cards[ci]
              effective == IF c.clinic_url = <<>> THEN urls[idx] ELSE c.clinic_url
              incomplete == c.menus = <<>> \/ c.hours = <<>>
          IN /\ NewCallsBy("main.detail") # <<>>
                    <=> (incomplete /\ effective # urls[idx])
             /\ NewCallsBy("main.detail") # <<>> =>
                    NewCallsBy("main.detail") = <<FetchCallOf("main.detail", effective)>>
             /\ NewCallsBy("main.page") = <<>>
             /\ (incomplete /\ effective = urls[idx]) =>
                    detail' = [how |-> "reused", doc |-> html]
             /\ ~incomplete => (cards' = cards /\ net_log' = net_log)]_vars

\* the run fetched a detail page for one candidate and ended on the
\* candidate of a page without cards, completed from the page itself
C5_Witness ==
    /\ pc = "done"
    /\ detail.how = "reused"
    /\ pages_seen[Len(pages_seen)].n_cards = 0
    /\ \E k \in 1..Len(net_log) : net_log[k].by = "main.detail"

\* C6: when the explicit list and discovery both give no URL, main stops
\* with SystemExit at the check of the targets, and at that point fetch has
\* not been called, nothing has been written to any sink and there is no
\* clinic, menu or hours row.
C6_NoTargetsAbortsFirst ==
    /\ (urls = <<>> /\ pc \notin {"start", "discover", "targets"}) =>
            /\ pc = "aborted"
            /\ main_exc.type = "SystemExit"
    /\ (pc = "aborted" /\ main_exc.type = "SystemExit") =>
            /\ \A k \in 1..Len(net_log) : net_log[k].fn # "fetch"
            /\ sinks = <<>>
            /\ pages_seen = <<>>
            /\ clinics_rows = <<>> /\ menus_rows = <<>> /\ hours_rows = <<>>

\* discovery probed the clinic pages, found none, and main stopped
C6_Witness ==
    /\ pc = "aborted"
    /\ main_exc.type = "SystemExit"
    /\ env.TARGET_URLS # <<>>
    /\ \E k \in 1..Len(net_log) : net_log[k].fn = "check_url_exists"

\* an anchor in which pick_img_src finds no image
NoInline(a) == pick_img_src(a.img) = <<>>

\* C9: with MENU_IMG_FOLLOW disabled no step of main, card parsing and
\* completion alike, calls fetch_menu_image_from_detail, and the menu of an
\* anchor without inline image has menu_img = ""; with it enabled, every
\* call of fetch_menu_image_from_detail is for an anchor of the scope that
\* has no inline image, with its non-empty menu URL. Without a base URL an
\* anchor with neither image nor href is not followed.
C9_MenuImageFollow ==
    [][/\ ~follow_detail => NewCallsBy("fetch_menu_image_from_detail") = <<>>
       /\ (~follow_detail /\ pc = "parse") =>
              \A k \in 1..Len(html.cards) :
                 \A j \in 1..Len(html.cards[k].anchors) :
                    NoInline(html.cards[k].anchors[j]) =>
                        cards'[k].menus[j].menu_img = <<>>
       /\ (~follow_detail /\ pc = "complete" /\ cards[ci].menus = <<>>
              /\ cards'[ci].menus # <<>>) =>
              \A j \in 1..Len(DocAnchors(detail'.doc)) :
                 NoInline(DocAnchors(detail'.doc)[j]) =>
                     cards'[ci].menus[j].menu_img = <<>>
       /\ (follow_detail /\ pc = "parse") =>
              \A n \in 1..Len(NewCallsBy("fetch_menu_image_from_detail")) :
                 LET e == NewCallsBy("fetch_menu_image_from_detail")[n] IN
                 /\ e.url # <<>>
                 /\ \E k \in 1..Len(html.cards) :
                      \E j \in 1..Len(html.cards[k].anchors) :
                         /\ NoInline(html.cards[k].anchors[j])
                         /\ e.url = urljoin(urls[idx], html.cards[k].anchors[j].href)
       /\ (follow_detail /\ pc = "complete") =>
              \A n \in 1..Len(NewCallsBy("fetch_menu_image_from_detail")) :
                 LET e == NewCallsBy("fetch_menu_image_from_detail")[n]
                     base == IF cards[ci].clinic_url = <<>> THEN urls[idx]
                             ELSE cards[ci].clinic_url
                 IN /\ e.url # <<>>
                    /\ \E j \in 1..Len(DocAnchors(detail'.doc)) :
                         /\ NoInline(DocAnchors(detail'.doc)[j])
                         /\ e.url = urljoin(base, DocAnchors(detail'.doc)[j].href)
       /\ extract_menus_from_scope(<<AnchorEmptyImg>>, <<>>, TRUE,
                                   [u \in {<<>>} |-> Unavailable]).calls = <<>>]_vars

\* a run with MENU_IMG_FOLLOW disabled ends with a menu that has an image
\* (inline) and a menu that has none, and no menu page was fetched
C9_Witness ==
    /\ pc = "done"
    /\ ~follow_detail
    /\ \E k \in 1..Len(menus_rows) : menus_rows[k].menu_img = <<>>
    /\ \E k \in 1..Len(menus_rows) : menus_rows[k].menu_img # <<>>
    /\ \A k \in 1..Len(net_log) : net_log[k].by # "fetch_menu_image_from_detail"

\* a fragment in front of the fragments that follow it
Before(frag, rest) ==
    IF frag = <<>> THEN rest
    ELSE IF rest = <<>> THEN frag
    ELSE frag \o <<","," ">> \o rest

\* C10: the notes of the clinic row of a candidate are the fragments
\* rating=<rating>, reviews=<reviews>, menus=0 and hours=0, each there
\* exactly when its fact holds after completion, in that order and joined by
\* ", ", with nothing left for a fragment that is not there; rating 4.5,
\* 120 reviews, one menu and no hours give "rating=4.5, reviews=120, hours=0".
C10_NotesFormat ==
    [][pc = "assemble" =>
          LET c == cards[ci]
              row == clinics_rows'[Len(clinics_rows')]
          IN /\ row.notes =
                   Before(IF c.rating.some THEN <<"r","a","t","i","n","g","=">> \o FloatStr(c.rating) ELSE <<>>,
                     Before(IF c.reviews.some THEN <<"r","e","v","i","e","w","s","=">> \o IntToDigits(c.reviews.v)
                            ELSE <<>>,
                       Before(IF c.menus = <<>> THEN <<"m","e","n","u","s","=","0">> ELSE <<>>,
                              IF c.hours = <<>> THEN <<"h","o","u","r","s","=","0">> ELSE <<>>)))
             /\ (/\ c.rating.some /\ FloatStr(c.rating) = <<"4",".","5">>
                 /\ c.reviews = SomeInt(120)
                 /\ Len(c.menus) = 1
                 /\ c.hours = <<>>) =>
                    row.notes = <<"r","a","t","i","n","g","=","4",".","5",","," ","r","e","v","i","e","w","s","=","1","2","0",","," ","h","o","u","r","s","=","0">>]_vars

\* the row of the candidate with rating 4.5, 120 reviews, one menu and no
\* hours is in clinics_rows
C10_Witness ==
    \E k \in 1..Len(clinics_rows) :
        /\ clinics_rows[k].notes = <<"r","a","t","i","n","g","=","4",".","5",","," ","r","e","v","i","e","w","s","=","1","2","0",","," ","h","o","u","r","s","=","0">>
        /\ clinics_rows[k].reviews_count = SomeInt(120)
        /\ clinics_rows[k].hours_json = <<>>

\* C11: among the clinic rows that come from the candidates of one listing
\* page, no two have the same non-empty clinic_id.
C11_ClinicIdUniqueWithinPage ==
    \A i, j \in 1..Len(clinics_rows) :
        (/\ i < j
         /\ clinics_rows[i].source_page_url = clinics_rows[j].source_page_url
         /\ clinics_rows[i].clinic_id # <<>>) =>
            clinics_rows[i].clinic_id # clinics_rows[j].clinic_id

----------------------------------------------------------------------------
(* Properties of fetch: the waits *)

\* C12: the wait after failed attempt k is SLEEP_BETWEEN * k, and fetch
\* waits only between consecutive attempts: a call that succeeds on attempt
\* n has waited n - 1 times, and a call that fails all RETRY attempts has
\* waited exactly twice (SLEEP_BETWEEN, then SLEEP_BETWEEN * 2) when it
\* raises.
C12_WaitsBetweenAttempts ==
    /\ \A k \in 1..Len(f.sleeps) : f.sleeps[k] = SLEEP_BETWEEN * k
    /\ Len(f.sleeps) <= RETRY - 1
    /\ f.pc = "returned" => Len(f.sleeps) = Len(f.requests) - 1
    /\ f.pc = "raised" => f.sleeps = <<SLEEP_BETWEEN, SLEEP_BETWEEN * 2>>
====
